---- MODULE Spec2Model ----
(***************************************************************************)
(* Model of the phone shop back office (phone_shop_system/main.py and      *)
(* models.py): the users table, the four numbered entity tables, the       *)
(* activity log, the clients' session cookies and the request handlers,    *)
(* each handler split at the points where it reads or commits to the       *)
(* shared database, so that concurrent requests interleave as the          *)
(* threaded server lets them.                                              *)
(*                                                                         *)
(* Money is modelled in whole currency units (the code uses floats); the   *)
(* columns that no handler reads (names, phone numbers, last_activity,     *)
(* ip_address, details) are left out.                                      *)
(***************************************************************************)
EXTENDS Integers, Sequences, FiniteSets, TLC

\* ------------------------------------------------------------------ bounds

\* The requests that write to the activity log: none is issued once the rows
\* written, failed to be written and about to be written reach this number.
MaxLog == 2
\* The number of times the store fails a commit of the activity log.
MaxFaults == 1
\* The last tick of the clock.
MaxTime == 2

\* The browsers (each holds one session cookie and has one request in flight).
Clients == {"c1", "c2"}

\* ------------------------------------------------------- program constants

\* main.py: f"TI-{str(10001 + count).zfill(5)}"
NumberBase == 10001
PadWidth == 5
\* main.py: Sale.query...limit(10)
DashboardLimit == 10

\* --------------------------------------------------------- pure functions

RECURSIVE Digits(_)
\* str(n) for n >= 0: the decimal digits, most significant first.
Digits(n) == IF n < 10 THEN <<n>> ELSE Append(Digits(n \div 10), n % 10)

RECURSIVE ZFill(_, _)
\* s.zfill(w): zeros on the left up to width w.
ZFill(s, w) == IF Len(s) >= w THEN s ELSE ZFill(<<0>> \o s, w)

\* FormatNumber numbering from 10000: the first entity gets PREFIX-10000.
FormatNumberFromBase(prefix, count) ==
    [prefix |-> prefix, digits |-> ZFill(Digits(NumberBase - 1 + count), PadWidth)]

\* f"{prefix}-{str(10001 + count).zfill(5)}"
FormatNumber(prefix, count) ==
    [prefix |-> prefix, digits |-> ZFill(Digits(NumberBase + count), PadWidth)]

RECURSIVE DigitsValue(_)
\* The integer a digit string denotes (what a reader of the number sees).
DigitsValue(s) ==
    IF Len(s) = 0 THEN 0
    ELSE 10 * DigitsValue(SubSeq(s, 1, Len(s) - 1)) + s[Len(s)]

\* db.func.date(ts): the calendar day of a timestamp (two ticks a day).
DateOf(ts) == ts \div 2

\* User.can_view_all_leads
\* A can_view_all_leads that lets every seeded role see every lead.
can_view_all_leads_any_role(u) == u.role \in {"owner", "manager", "staff"}

can_view_all_leads(u) == u.role \in {"owner", "manager"}
\* User.can_view_profits
can_view_profits(u) == u.role = "owner"

can_assign_leads(u) == u.role \in {"owner", "manager"}

can_delete_records(u) == u.role = "owner"

can_view_staff_metrics(u) == u.role \in {"owner", "manager"}

\* A can_manage_staff that follows the read hierarchy: managers included.
can_manage_staff_with_manager(u) == u.role \in {"owner", "manager"}

can_manage_staff(u) == u.role = "owner"

can_view_all_deliveries(u) == u.role \in {"owner", "manager"}

can_access_settings(u) == u.role = "owner"

RECURSIVE SumOver(_, _)
\* sum(f[i] for i in S)
SumOver(f, S) ==
    IF S = {} THEN 0
    ELSE LET i == CHOOSE x \in S : TRUE IN f[i] + SumOver(f, S \ {i})

\* ------------------------------------------------------------------ state

VARIABLES
    users,      \* table user: id (= index) -> [username, role, is_active, created_by]
    tradeins,   \* table trade_in: id -> [trade_in_number, status, created_by, created_at, ...]
    sales,      \* table sale: id -> [sale_number, quantity, ..., created_by, created_at]
    repairs,    \* table repair: id -> [repair_number, status, created_by, created_at, ...]
    leads,      \* table lead: id -> [lead_number, status, created_by, assigned_to, ...]
    activity,   \* table activity_log: id -> [user_id, action, entity_type, entity_id, timestamp]
    session,    \* the session cookie of each client
    req,        \* the request of each client in flight: handler, position, locals
    out,        \* the request answered by the last step, with its response
    now,        \* the clock
    faults      \* the failed commits of the activity log so far

vars == <<users, tradeins, sales, repairs, leads, activity, session, req, out, now, faults>>

\* ------------------------------------------------------------ vocabulary

NoSession == [user_id |-> 0, role |-> "none"]
NoArg == [none |-> TRUE]
NoBody == [none |-> TRUE]
\* op: the handler; pc: its position; arg: the request's input; count, entity_id,
\* loaded: the handler's local variables.
IdleReq == [op |-> "none", pc |-> "done", arg |-> NoArg, count |-> 0,
            entity_id |-> 0, loaded |-> FALSE]
NoOut == [client |-> "none", user_id |-> 0, op |-> "none",
          entity_id |-> 0, code |-> 0, body |-> NoBody]

\* What add_staff accepts for role: any string of the form.
RoleInputs == {"owner", "manager", "intern"}
\* Usernames as typed in the add_staff form.
UsernameInputs == {"Staff", "amy"}
\* str.lower()
Lower(s) == IF s = "Staff" THEN "staff" ELSE s

\* The payloads of the three JSON creation endpoints and of the lead form:
\* complete = every nullable=False column is given and every number parses.
EntityPayloads == {[complete |-> TRUE], [complete |-> FALSE]}
\* Complete payloads that carry a status of their own, or none.
StatusPayloads == {[complete |-> TRUE, status |-> st] : st \in {"none", "approved", "completed"}}
SalePayloads ==
    { [complete |-> TRUE, quantity |-> 1, unit_price |-> 5, has_cost |-> FALSE, cost_price |-> 0],
      [complete |-> TRUE, quantity |-> 2, unit_price |-> 5, has_cost |-> TRUE, cost_price |-> 2],
      [complete |-> TRUE, quantity |-> 1, unit_price |-> 3, has_cost |-> TRUE, cost_price |-> 4],
      [complete |-> FALSE, quantity |-> 0, unit_price |-> 0, has_cost |-> FALSE, cost_price |-> 0] }

\* seed_data: the three accounts created when the user table is empty.
SeedUsers ==
    << [username |-> "owner", role |-> "owner", is_active |-> TRUE, created_by |-> 0],
       [username |-> "manager", role |-> "manager", is_active |-> TRUE, created_by |-> 0],
       [username |-> "staff", role |-> "staff", is_active |-> TRUE, created_by |-> 0] >>

\* The session cookies a browser may hold when the server starts on a fresh
\* database: none, or the signed cookie of an earlier login to a seeded
\* account (cookies live for PERMANENT_SESSION_LIFETIME, the ids are seeded anew).
StartSessions ==
    {NoSession} \cup {[user_id |-> u, role |-> SeedUsers[u].role] : u \in DOMAIN SeedUsers}

Init ==
    /\ users = SeedUsers
    /\ tradeins = <<>>
    /\ sales = <<>>
    /\ repairs = <<>>
    /\ leads = <<>>
    /\ activity = <<>>
    /\ session \in [Clients -> StartSessions]
    /\ req = [c \in Clients |-> IdleReq]
    /\ out = NoOut
    /\ now = 1
    /\ faults = 0

\* ------------------------------------------------------- shared helpers

\* The handlers that call log_activity.
LoggingOps == {"login", "logout", "add_lead", "submit_tradein", "submit_sale",
               "submit_repair", "add_staff", "toggle_staff"}

\* The handlers whose rows MaxLog bounds. The rows of add_staff are bounded
\* by the usernames: the column is unique.
BoundedOps == LoggingOps \ {"add_staff"}

\* The rows written and the rows about to be written. The failed commits are
\* bounded by MaxFaults.
LogLoad ==
    Cardinality({i \in DOMAIN activity : activity[i].action # "staff_created"})
       + Cardinality({d \in Clients : req[d].op \in BoundedOps})

\* The tighter bound of the specifications that need no more: the rows of
\* add_staff and the failed commits count as well.
LogRoom ==
    Len(activity) + faults
       + Cardinality({d \in Clients : req[d].op \in LoggingOps}) < MaxLog

LogRoomFor(op) == op \in LoggingOps => LogRoom

\* A client issues a request when its previous one has been answered; one that
\* writes to the activity log only while the log has room for its row.
CanStart(c, op) ==
    /\ req[c].pc = "done"
    /\ op \in BoundedOps => LogLoad < MaxLog

\* The store may fail a commit of the activity log (a fault) or accept it.
StoreOutcomes == IF faults < MaxFaults THEN {TRUE, FALSE} ELSE {TRUE}

\* The response of client c's request, by the step that sends it.
Response(c, op, arg, entity_id, code, body) ==
    [client |-> c, user_id |-> session[c].user_id, op |-> op,
     entity_id |-> entity_id, code |-> code, body |-> body]

Answer(c, code, body) ==
    Response(c, req[c].op, req[c].arg, req[c].entity_id, code, body)

Redirect(location) == [location |-> location]
\* An unhandled exception: the errorhandler(500) page.
Raised(exception) == [error |-> exception]

\* ActivityLog(user_id=session.get('user_id'), action=..., ...)
NewActivity(sess, action, entity_type, entity_id) ==
    [user_id |-> sess.user_id, action |-> action,
     entity_type |-> entity_type, entity_id |-> entity_id, timestamp |-> now]

\* log_activity called without the entity: the row names no entity_id.
log_activity_no_entity(sess, action, entity_type, entity_id) ==
    IF sess.user_id # 0
    THEN Append(activity, NewActivity(sess, action, entity_type, 0))
    ELSE activity

\* log_activity keeping one row per user: the user's earlier rows are dropped.
log_activity_latest_only(sess, action, entity_type, entity_id) ==
    IF sess.user_id # 0
    THEN Append(SelectSeq(activity, LAMBDA e : e.user_id # sess.user_id),
                NewActivity(sess, action, entity_type, entity_id))
    ELSE activity

\* log_activity without the look at the session: a row for every call.
log_activity_of_any_session(sess, action, entity_type, entity_id) ==
    Append(activity, NewActivity(sess, action, entity_type, entity_id))

\* log_activity: adds a row only when the session carries a user_id.
log_activity(sess, action, entity_type, entity_id) ==
    IF sess.user_id # 0
    THEN Append(activity, NewActivity(sess, action, entity_type, entity_id))
    ELSE activity

\* UniqueViolation for a column declared without unique=True.
UniqueViolationNever(table, column, value) == FALSE

\* A column declared unique=True: the commit raises IntegrityError when
\* another row already holds the value.
UniqueViolation(table, column, value) ==
    \E i \in DOMAIN table : table[i][column] = value

\* ------------------------------------------------------------- the clock

Tick ==
    /\ now < MaxTime
    /\ now' = now + 1
    /\ out' = NoOut
    /\ UNCHANGED <<users, tradeins, sales, repairs, leads, activity, session, req, faults>>

\* ------------------------------------------------------- login and logout

\* login (POST): u is the account the typed username names, good whether the
\* password or the pin matches; store_ok whether the activity row commits.
login(c, u, good, store_ok) ==
    /\ CanStart(c, "login")
    /\ IF users[u].is_active /\ good
       THEN LET s == [user_id |-> u, role |-> users[u].role]
            IN /\ session' = [session EXCEPT ![c] = s]
               /\ IF store_ok
                  THEN /\ activity' = log_activity(s, "login", "none", 0)
                       /\ out' = [Response(c, "login", NoArg, 0, 302, Redirect("dashboard"))
                                    EXCEPT !.user_id = u]
                       /\ faults' = faults
                  ELSE /\ activity' = activity
                       /\ out' = [Response(c, "login", NoArg, 0, 500, Raised("OperationalError"))
                                    EXCEPT !.user_id = u]
                       /\ faults' = faults + 1
       ELSE /\ out' = Response(c, "login", NoArg, 0, 200, [error |-> "Invalid credentials"])
            /\ UNCHANGED <<session, activity, faults>>
    /\ UNCHANGED <<users, tradeins, sales, repairs, leads, req, now>>

\* logout
logout(c, store_ok) ==
    /\ CanStart(c, "logout")
    /\ IF session[c].user_id # 0 /\ ~store_ok
       THEN \* log_activity raises: session.clear() is not reached
            /\ out' = Response(c, "logout", NoArg, 0, 500, Raised("OperationalError"))
            /\ faults' = faults + 1
            /\ UNCHANGED <<session, activity>>
       ELSE /\ activity' = log_activity(session[c], "logout", "none", 0)
            /\ session' = [session EXCEPT ![c] = NoSession]
            /\ out' = Response(c, "logout", NoArg, 0, 302, Redirect("login"))
            /\ faults' = faults
    /\ UNCHANGED <<users, tradeins, sales, repairs, leads, req, now>>

\* ---------------------------------------------------------- login_required

LoginOps == {"dashboard", "leads_list", "dashboard_stats",
             "add_lead", "submit_tradein", "submit_sale", "submit_repair"}

ArgsOf(op) ==
    CASE op = "submit_sale" -> SalePayloads
      [] op \in {"add_lead", "submit_tradein", "submit_repair"} -> EntityPayloads
      [] OTHER -> {NoArg}

\* The decorator of every login-protected handler; is_json is request.is_json.
login_required(c, op, arg, is_json) ==
    /\ CanStart(c, op)
    /\ IF session[c].user_id = 0
       THEN /\ out' = IF is_json
                      THEN Response(c, op, arg, 0, 401, [error |-> "Authentication required"])
                      ELSE Response(c, op, arg, 0, 302, Redirect("login"))
            /\ UNCHANGED <<session, req>>
       ELSE IF ~users[session[c].user_id].is_active
       THEN /\ session' = [session EXCEPT ![c] = NoSession]
            /\ out' = Response(c, op, arg, 0, 302, Redirect("login"))
            /\ UNCHANGED req
       ELSE /\ req' = [req EXCEPT ![c] = [IdleReq EXCEPT !.op = op, !.arg = arg, !.pc = "body"]]
            /\ out' = NoOut
            /\ UNCHANGED session
    /\ UNCHANGED <<users, tradeins, sales, repairs, leads, activity, now, faults>>

\* ------------------------------------------------------ creation handlers

\* count = <Table>.query.count()
ReadCount(c, op, table) ==
    /\ req[c].op = op /\ req[c].pc = "body"
    /\ req' = [req EXCEPT ![c].count = Len(table), ![c].pc = "insert"]
    /\ out' = NoOut

\* db.session.add(row); db.session.commit(). The commit raises when the
\* payload leaves a nullable=False column empty or a number unparsed, or when
\* the number is already taken.
Inserted(c, table, column, row) ==
    req[c].arg.complete /\ ~UniqueViolation(table, column, row[column])

\* An insert that, when the number is taken, overwrites the row that holds it.
InsertRowOrReplace(c, table, column, row) ==
    IF ~req[c].arg.complete THEN table
    ELSE IF UniqueViolation(table, column, row[column])
    THEN [i \in DOMAIN table |-> IF table[i][column] = row[column] THEN row ELSE table[i]]
    ELSE Append(table, row)

InsertRow(c, table, column, row) ==
    IF Inserted(c, table, column, row) THEN Append(table, row) ELSE table

\* The request after the insert: on to log_activity, or answered with a 500.
AfterInsert(c, table, column, row) ==
    IF Inserted(c, table, column, row)
    THEN /\ req' = [req EXCEPT ![c].pc = "log", ![c].entity_id = Len(table) + 1]
         /\ out' = NoOut
    ELSE /\ req' = [req EXCEPT ![c] = IdleReq]
         /\ out' = Answer(c, 500, IF req[c].arg.complete
                                   THEN Raised("IntegrityError: UNIQUE constraint failed")
                                   ELSE Raised("bad payload"))

\* log_activity(...) then the handler's return.
LogAndReturn(c, op, action, entity_type, store_ok, code, body) ==
    /\ req[c].op = op /\ req[c].pc = "log"
    /\ req' = [req EXCEPT ![c] = IdleReq]
    /\ IF store_ok
       THEN /\ activity' = log_activity(session[c], action, entity_type, req[c].entity_id)
            /\ out' = Answer(c, code, body)
            /\ faults' = faults
       ELSE /\ activity' = activity
            /\ out' = Answer(c, 500, Raised("OperationalError"))
            /\ faults' = faults + 1

\* submit_tradein
\* A TradeIn that takes the status the payload gives, 'pending' without one.
TradeInRowStatusFromPayload(c) ==
    [trade_in_number |-> FormatNumber("TI", req[c].count),
     status |-> IF "status" \in DOMAIN req[c].arg /\ req[c].arg.status # "none"
                THEN req[c].arg.status ELSE "pending",
     created_by |-> session[c].user_id,
     created_at |-> now, updated_at |-> 0, updated_by |-> 0]

\* created_at takes the column default (the time of the insert); updated_at
\* and updated_by stay NULL (0).
TradeInRow(c) ==
    [trade_in_number |-> FormatNumber("TI", req[c].count), status |-> "pending",
     created_by |-> session[c].user_id,
     created_at |-> now, updated_at |-> 0, updated_by |-> 0]

submit_tradein_count(c) ==
    /\ ReadCount(c, "submit_tradein", tradeins)
    /\ UNCHANGED <<users, tradeins, sales, repairs, leads, activity, session, now, faults>>

submit_tradein_insert(c) ==
    /\ req[c].op = "submit_tradein" /\ req[c].pc = "insert"
    /\ tradeins' = InsertRow(c, tradeins, "trade_in_number", TradeInRow(c))
    /\ AfterInsert(c, tradeins, "trade_in_number", TradeInRow(c))
    /\ UNCHANGED <<users, sales, repairs, leads, activity, session, now, faults>>

submit_tradein_log(c, store_ok) ==
    /\ LogAndReturn(c, "submit_tradein", "tradein_created", "tradein", store_ok, 200,
                    [success |-> TRUE, number |-> FormatNumber("TI", req[c].count),
                     id |-> req[c].entity_id])
    /\ UNCHANGED <<users, tradeins, sales, repairs, leads, session, now>>

\* submit_sale
\* A profit that subtracts the cost of one unit whatever the quantity.
SaleProfitOfOneUnit(total, quantity, cost_price) ==
    IF cost_price # 0 THEN total - cost_price ELSE 0

\* profit = total - (quantity * cost_price) if cost_price else 0
SaleProfit(total, quantity, cost_price) ==
    IF cost_price # 0 THEN total - (quantity * cost_price) ELSE 0

\* A Sale whose total is the price of one unit whatever the quantity.
SaleRowTotalOfOneUnit(c) ==
    LET data == req[c].arg
        quantity == data.quantity
        unit_price == data.unit_price
        cost_price == IF data.has_cost THEN data.cost_price ELSE 0
        total == unit_price
        profit == SaleProfit(total, quantity, cost_price)
    IN [sale_number |-> FormatNumber("SL", req[c].count), quantity |-> quantity,
        unit_price |-> unit_price, cost_price |-> cost_price, total_price |-> total,
        profit |-> profit, created_by |-> session[c].user_id, created_at |-> now]

SaleRow(c) ==
    LET data == req[c].arg
        quantity == data.quantity
        unit_price == data.unit_price
        cost_price == IF data.has_cost THEN data.cost_price ELSE 0
        total == quantity * unit_price
        profit == SaleProfit(total, quantity, cost_price)
    IN [sale_number |-> FormatNumber("SL", req[c].count), quantity |-> quantity,
        unit_price |-> unit_price, cost_price |-> cost_price, total_price |-> total,
        profit |-> profit, created_by |-> session[c].user_id, created_at |-> now]

submit_sale_count(c) ==
    /\ ReadCount(c, "submit_sale", sales)
    /\ UNCHANGED <<users, tradeins, sales, repairs, leads, activity, session, now, faults>>

submit_sale_insert(c) ==
    /\ req[c].op = "submit_sale" /\ req[c].pc = "insert"
    /\ sales' = InsertRow(c, sales, "sale_number", SaleRow(c))
    /\ AfterInsert(c, sales, "sale_number", SaleRow(c))
    /\ UNCHANGED <<users, tradeins, repairs, leads, activity, session, now, faults>>

submit_sale_log(c, store_ok) ==
    /\ LogAndReturn(c, "submit_sale", "sale_created", "sale", store_ok, 200,
                    [success |-> TRUE, number |-> sales[req[c].entity_id].sale_number,
                     id |-> req[c].entity_id])
    /\ UNCHANGED <<users, tradeins, sales, repairs, leads, session, now>>

\* submit_repair
RepairRow(c) ==
    [repair_number |-> FormatNumber("RP", req[c].count), status |-> "received",
     created_by |-> session[c].user_id,
     created_at |-> now, updated_at |-> 0, updated_by |-> 0]

submit_repair_count(c) ==
    /\ ReadCount(c, "submit_repair", repairs)
    /\ UNCHANGED <<users, tradeins, sales, repairs, leads, activity, session, now, faults>>

submit_repair_insert(c) ==
    /\ req[c].op = "submit_repair" /\ req[c].pc = "insert"
    /\ repairs' = InsertRow(c, repairs, "repair_number", RepairRow(c))
    /\ AfterInsert(c, repairs, "repair_number", RepairRow(c))
    /\ UNCHANGED <<users, tradeins, sales, leads, activity, session, now, faults>>

submit_repair_log(c, store_ok) ==
    /\ LogAndReturn(c, "submit_repair", "repair_created", "repair", store_ok, 200,
                    [success |-> TRUE, number |-> FormatNumber("RP", req[c].count),
                     id |-> req[c].entity_id])
    /\ UNCHANGED <<users, tradeins, sales, repairs, leads, session, now>>

\* add_lead (POST); status takes the column default 'new'.
LeadRow(c) ==
    [lead_number |-> FormatNumber("LD", req[c].count), status |-> "new",
     created_by |-> session[c].user_id, assigned_to |-> session[c].user_id,
     created_at |-> now, updated_at |-> 0, updated_by |-> 0]

add_lead_count(c) ==
    /\ ReadCount(c, "add_lead", leads)
    /\ UNCHANGED <<users, tradeins, sales, repairs, leads, activity, session, now, faults>>

add_lead_insert(c) ==
    /\ req[c].op = "add_lead" /\ req[c].pc = "insert"
    /\ leads' = InsertRow(c, leads, "lead_number", LeadRow(c))
    /\ AfterInsert(c, leads, "lead_number", LeadRow(c))
    /\ UNCHANGED <<users, tradeins, sales, repairs, activity, session, now, faults>>

add_lead_log(c, store_ok) ==
    /\ LogAndReturn(c, "add_lead", "lead_created", "lead", store_ok, 302,
                    Redirect("leads_list"))
    /\ UNCHANGED <<users, tradeins, sales, repairs, leads, session, now>>

\* ------------------------------------------------------------ read views

\* Sale.query.filter(db.func.date(Sale.created_at) == today)
SalesToday == {i \in DOMAIN sales : DateOf(sales[i].created_at) = DateOf(now)}
\* A filter on the day alone: the sales of every creator.
SalesTodayOfAnyone(uid) == SalesToday

SalesTodayOf(uid) == {i \in SalesToday : sales[i].created_by = uid}

\* .order_by(Sale.created_at.desc()).limit(10): every set the query may return
\* (the order among equal created_at values is the database's choice).
NewestSales(S) ==
    IF Cardinality(S) <= DashboardLimit THEN {S}
    ELSE {T \in SUBSET S : /\ Cardinality(T) = DashboardLimit
                           /\ \A x \in T, y \in S \ T :
                                 sales[x].created_at >= sales[y].created_at}

\* sum(s.total_price for s in sales_today)
total_revenue(S) == SumOver([i \in DOMAIN sales |-> sales[i].total_price], S)
\* sum(s.profit for s in sales_today if s.profit)
total_profit(S) ==
    SumOver([i \in DOMAIN sales |-> sales[i].profit], {i \in S : sales[i].profit # 0})

OpenLeadStatuses == {"new", "contacted", "follow_up"}

\* The staff_sales query of the owner's dashboard: today's sales joined to
\* their creators and grouped by creator.
staff_sales ==
    [u \in {sales[i].created_by : i \in SalesToday} \cap DOMAIN users |->
        [count |-> Cardinality(SalesTodayOf(u)), total |-> total_revenue(SalesTodayOf(u))]]

\* dashboard: the values handed to the template, for the user of the session.
DashboardView(uid, shown) ==
    LET user == users[uid]
        all == user.role \in {"owner", "manager"}
        mine(table) == {i \in DOMAIN table : all \/ table[i].created_by = uid}
        sales_today == IF all THEN SalesToday ELSE SalesTodayOf(uid)
    IN [sales |-> shown,
        tradeins |-> {i \in mine(tradeins) : tradeins[i].status = "pending"},
        repairs |-> {i \in mine(repairs) : repairs[i].status # "completed"},
        leads |-> {i \in mine(leads) : leads[i].status \in OpenLeadStatuses},
        deliveries |-> {},
        total_revenue |-> total_revenue(sales_today),
        total_profit |-> IF user.role = "owner"
                         THEN [none |-> FALSE, value |-> total_profit(sales_today)]
                         ELSE [none |-> TRUE, value |-> 0],
        staff_sales |-> IF user.role = "owner" THEN staff_sales ELSE <<>>,
        sales_count |-> Cardinality(sales_today)]

dashboard(c) ==
    /\ req[c].op = "dashboard" /\ req[c].pc = "body"
    /\ LET uid == session[c].user_id
           all == users[uid].role \in {"owner", "manager"}
       IN \E shown \in NewestSales({i \in DOMAIN sales : all \/ sales[i].created_by = uid}) :
             out' = Answer(c, 200, DashboardView(uid, shown))
    /\ req' = [req EXCEPT ![c] = IdleReq]
    /\ UNCHANGED <<users, tradeins, sales, repairs, leads, activity, session, now, faults>>

\* leads_list
\* A list that is not scoped: every user is given every lead.
LeadsViewOfAll(uid) == DOMAIN leads

LeadsView(uid) ==
    IF can_view_all_leads(users[uid])
    THEN DOMAIN leads
    ELSE {i \in DOMAIN leads : leads[i].created_by = uid}

leads_list(c) ==
    /\ req[c].op = "leads_list" /\ req[c].pc = "body"
    /\ out' = Answer(c, 200, [leads |-> LeadsView(session[c].user_id)])
    /\ req' = [req EXCEPT ![c] = IdleReq]
    /\ UNCHANGED <<users, tradeins, sales, repairs, leads, activity, session, now, faults>>

\* A response that gets the key only when the profit is truthy.
WithProfitIfTruthy(response, profit) ==
    IF ~profit.none /\ profit.value # 0
    THEN response @@ [profit_today |-> profit.value]
    ELSE response

\* if total_profit is not None: response["profit_today"] = total_profit
WithProfit(response, profit) ==
    IF ~profit.none THEN response @@ [profit_today |-> profit.value] ELSE response

\* dashboard_stats: the JSON object returned (its keys are the record's fields).
StatsView(uid) ==
    LET user == users[uid]
        all == user.role \in {"owner", "manager"}
        sales_today == IF all THEN SalesToday ELSE SalesTodayOf(uid)
        response ==
            [sales_today |-> total_revenue(sales_today),
             sales_count |-> Cardinality(sales_today),
             pending_tradeins |-> Cardinality({i \in DOMAIN tradeins :
                 /\ tradeins[i].status = "pending"
                 /\ all \/ tradeins[i].created_by = uid}),
             active_repairs |-> Cardinality({i \in DOMAIN repairs :
                 /\ repairs[i].status # "completed"
                 /\ all \/ repairs[i].created_by = uid})]
    IN WithProfit(response,
                  IF user.role = "owner"
                  THEN [none |-> FALSE, value |-> total_profit(sales_today)]
                  ELSE [none |-> TRUE, value |-> 0])

dashboard_stats(c) ==
    /\ req[c].op = "dashboard_stats" /\ req[c].pc = "body"
    /\ out' = Answer(c, 200, StatsView(session[c].user_id))
    /\ req' = [req EXCEPT ![c] = IdleReq]
    /\ UNCHANGED <<users, tradeins, sales, repairs, leads, activity, session, now, faults>>

\* ---------------------------------------------------------- owner_required

\* The decorator of the owner-only handlers: it reads the session cookie only.
\* Code 0 lets the handler run; otherwise the response the decorator returns.
\* An owner_required that lets managers through as well.
owner_or_manager_required(c) ==
    IF session[c].user_id = 0 THEN [code |-> 302, body |-> Redirect("login")]
    ELSE IF session[c].role \notin {"owner", "manager"}
    THEN [code |-> 403, body |-> [error |-> "Owner access required"]]
    ELSE [code |-> 0, body |-> NoBody]

owner_required(c) ==
    IF session[c].user_id = 0 THEN [code |-> 302, body |-> Redirect("login")]
    ELSE IF session[c].role # "owner"
    THEN [code |-> 403, body |-> [error |-> "Owner access required"]]
    ELSE [code |-> 0, body |-> NoBody]

Refused(c, op, arg) ==
    Response(c, op, arg, 0, owner_required(c).code, owner_required(c).body)

\* staff_management
staff_management(c) ==
    /\ CanStart(c, "staff_management")
    /\ out' = IF owner_required(c).code # 0 THEN Refused(c, "staff_management", NoArg)
              ELSE Response(c, "staff_management", NoArg, 0, 200, [users |-> DOMAIN users])
    /\ UNCHANGED <<users, tradeins, sales, repairs, leads, activity, session, req, now, faults>>

\* add_staff (POST): the decorator and the lookup of the username.
StaffArgs == {[username |-> n, has_role |-> TRUE, role |-> r] :
                 n \in UsernameInputs, r \in RoleInputs}
              \cup {[username |-> n, has_role |-> FALSE, role |-> "none"] : n \in UsernameInputs}

add_staff(c, arg) ==
    /\ CanStart(c, "add_staff")
    /\ IF owner_required(c).code # 0
       THEN out' = Refused(c, "add_staff", arg) /\ req' = req
       ELSE IF \E i \in DOMAIN users : users[i].username = Lower(arg.username)
       THEN /\ out' = Response(c, "add_staff", arg, 0, 200, [error |-> "Username already exists"])
            /\ req' = req
       ELSE /\ req' = [req EXCEPT ![c] = [IdleReq EXCEPT !.op = "add_staff", !.arg = arg,
                                                         !.pc = "insert"]]
            /\ out' = NoOut
    /\ UNCHANGED <<users, tradeins, sales, repairs, leads, activity, session, now, faults>>

UserRow(c) ==
    [username |-> Lower(req[c].arg.username),
     role |-> IF req[c].arg.has_role THEN req[c].arg.role ELSE "staff",
     is_active |-> TRUE, created_by |-> session[c].user_id]

add_staff_insert(c) ==
    /\ req[c].op = "add_staff" /\ req[c].pc = "insert"
    /\ IF UniqueViolation(users, "username", UserRow(c).username)
       THEN /\ req' = [req EXCEPT ![c] = IdleReq]
            /\ out' = Answer(c, 500, Raised("IntegrityError: UNIQUE constraint failed"))
            /\ users' = users
       ELSE /\ users' = Append(users, UserRow(c))
            /\ req' = [req EXCEPT ![c].pc = "log", ![c].entity_id = Len(users) + 1]
            /\ out' = NoOut
    /\ UNCHANGED <<tradeins, sales, repairs, leads, activity, session, now, faults>>

add_staff_log(c, store_ok) ==
    /\ LogAndReturn(c, "add_staff", "staff_created", "user", store_ok, 302,
                    Redirect("staff_management"))
    /\ UNCHANGED <<users, tradeins, sales, repairs, leads, session, now>>

\* toggle_staff: the decorator, User.query.get_or_404 and the self check.
toggle_staff(c, user_id) ==
    /\ CanStart(c, "toggle_staff")
    /\ LET arg == [user_id |-> user_id]
       IN IF owner_required(c).code # 0
          THEN out' = Refused(c, "toggle_staff", arg) /\ req' = req
          ELSE IF user_id \notin DOMAIN users
          THEN out' = Response(c, "toggle_staff", arg, 0, 404, NoBody) /\ req' = req
          ELSE IF user_id = session[c].user_id
          THEN /\ out' = Response(c, "toggle_staff", arg, 0, 400,
                                  [error |-> "Cannot deactivate yourself"])
               /\ req' = req
          ELSE /\ req' = [req EXCEPT ![c] = [IdleReq EXCEPT !.op = "toggle_staff",
                              !.arg = arg, !.pc = "commit", !.entity_id = user_id,
                              !.loaded = users[user_id].is_active]]
               /\ out' = NoOut
    /\ UNCHANGED <<users, tradeins, sales, repairs, leads, activity, session, now, faults>>

\* user.is_active = not user.is_active; db.session.commit()
toggle_staff_commit(c) ==
    /\ req[c].op = "toggle_staff" /\ req[c].pc = "commit"
    /\ users' = [users EXCEPT ![req[c].entity_id].is_active = ~req[c].loaded]
    /\ req' = [req EXCEPT ![c].pc = "log", ![c].loaded = ~req[c].loaded]
    /\ out' = NoOut
    /\ UNCHANGED <<tradeins, sales, repairs, leads, activity, session, now, faults>>

toggle_staff_log(c, store_ok) ==
    /\ LogAndReturn(c, "toggle_staff", "staff_toggled", "user", store_ok, 200,
                    [success |-> TRUE, is_active |-> req[c].loaded])
    /\ UNCHANGED <<users, tradeins, sales, repairs, leads, session, now>>

\* ------------------------------------------- owner-only reports and the log

\* The rows of the staff performance queries: one per active staff or manager
\* account (outer join: accounts without sales are listed with zeros), over
\* the sales in S.
StaffPerformance(S) ==
    [u \in {i \in DOMAIN users : users[i].role \in {"staff", "manager"} /\ users[i].is_active} |->
        LET mine == {i \in S : sales[i].created_by = u}
        IN [role |-> users[u].role,
            sales_count |-> Cardinality(mine),
            total_sales |-> total_revenue(mine),
            total_profit |-> SumOver([i \in DOMAIN sales |-> sales[i].profit], mine)]]

\* staff_performance_api
staff_performance_api(c) ==
    /\ CanStart(c, "staff_performance_api")
    /\ out' = IF owner_required(c).code # 0 THEN Refused(c, "staff_performance_api", NoArg)
              ELSE Response(c, "staff_performance_api", NoArg, 0, 200,
                            [performance |-> StaffPerformance(SalesToday)])
    /\ UNCHANGED <<users, tradeins, sales, repairs, leads, activity, session, req, now, faults>>

\* owner_dashboard: the values handed to the template. No handler sets a
\* follow_up_date or stores a delivery, so nothing is overdue and the
\* delivery counts are 0.
RecentLimit == 50

OwnerDashboardView(order) ==
    [staff_performance |-> StaffPerformance(DOMAIN sales),
     leads_stats |->
        [u \in {i \in DOMAIN users : users[i].role \in {"staff", "manager"}} |->
            LET mine == {i \in DOMAIN leads : leads[i].created_by = u}
            IN [total_leads |-> Cardinality(mine),
                converted |-> Cardinality({i \in mine : leads[i].status = "converted"})]],
     overdue_followups |-> 0,
     pending_deliveries |-> 0,
     failed_deliveries |-> 0,
     recent_activities |-> SubSeq(order, 1, IF Len(order) < RecentLimit THEN Len(order)
                                            ELSE RecentLimit)]

RECURSIVE Orderings(_)
Orderings(S) ==
    IF S = {} THEN {<<>>}
    ELSE UNION {{<<x>> \o rest : rest \in Orderings(S \ {x})} : x \in S}

\* ActivityLog.query.order_by(ActivityLog.timestamp.desc()): the ids in every
\* order the query may return; the order of rows of one timestamp is the
\* database's choice.
ActivityOrders ==
    {order \in Orderings(DOMAIN activity) :
        \A i, j \in DOMAIN order :
            i < j => activity[order[i]].timestamp >= activity[order[j]].timestamp}

\* .paginate(page=page, per_page=per_page, error_out=False): the rows
\* (page - 1) * per_page + 1 .. page * per_page of the ordered query.
PageItems(order, page, per_page) ==
    SubSeq(order, (page - 1) * per_page + 1,
           IF page * per_page < Len(order) THEN page * per_page ELSE Len(order))

\* request.args: the page and the page size a request asks for.
PageInputs == {1, 2, 3}
PerPageInputs == {1, 2}

\* The JSON object activity_log_api returns.
ActivityLogView(order, page, per_page) ==
    [items |-> PageItems(order, page, per_page),
     total |-> Len(order),
     pages |-> (Len(order) + per_page - 1) \div per_page,
     current_page |-> page]

owner_dashboard(c) ==
    /\ CanStart(c, "owner_dashboard")
    /\ IF owner_required(c).code # 0
       THEN out' = Refused(c, "owner_dashboard", NoArg)
       ELSE \E order \in ActivityOrders :
               out' = Response(c, "owner_dashboard", NoArg, 0, 200, OwnerDashboardView(order))
    /\ UNCHANGED <<users, tradeins, sales, repairs, leads, activity, session, req, now, faults>>

\* activity_log_api: one request for one page.
activity_log_api(c, page, per_page) ==
    /\ CanStart(c, "activity_log_api")
    /\ LET arg == [page |-> page, per_page |-> per_page]
       IN IF owner_required(c).code # 0
          THEN out' = Refused(c, "activity_log_api", arg)
          ELSE \E order \in ActivityOrders :
                  out' = Response(c, "activity_log_api", arg, 0, 200,
                                  ActivityLogView(order, page, per_page))
    /\ UNCHANGED <<users, tradeins, sales, repairs, leads, activity, session, req, now, faults>>

\* A client that pages through the log: it asks for page 1, then for the next
\* page until one comes back empty or the request is refused. Between two of
\* its requests req holds what the client holds: the size and the number of
\* the next page, the items received so far and the ids that were in the log
\* when it read page 1.
activity_log_pages(c, per_page) ==
    /\ \/ CanStart(c, "activity_log_api")
       \/ /\ req[c].op = "activity_log_api" /\ req[c].pc = "paging"
          /\ req[c].arg.per_page = per_page
    /\ LET first == req[c].pc = "done"
           page == IF first THEN 1 ELSE req[c].arg.page
           seen == IF first THEN <<>> ELSE req[c].arg.seen
           at_start == IF first THEN DOMAIN activity ELSE req[c].arg.at_start
           arg == [page |-> page, per_page |-> per_page]
       IN IF owner_required(c).code # 0
          THEN /\ out' = Refused(c, "activity_log_api", arg)
               /\ req' = [req EXCEPT ![c] = IdleReq]
          ELSE \E order \in ActivityOrders :
                  LET view == ActivityLogView(order, page, per_page)
                  IN /\ out' = Response(c, "activity_log_api", arg, 0, 200, view)
                     /\ req' = [req EXCEPT ![c] =
                           [IdleReq EXCEPT
                              !.op = "activity_log_api",
                              !.pc = IF view.items = <<>> THEN "read" ELSE "paging",
                              !.arg = [per_page |-> per_page, page |-> page + 1,
                                       seen |-> seen \o view.items,
                                       at_start |-> at_start]]]
    /\ UNCHANGED <<users, tradeins, sales, repairs, leads, activity, session, now, faults>>

\* The client drops the pages it has read.
activity_log_pages_done(c) ==
    /\ req[c].op = "activity_log_api" /\ req[c].pc = "read"
    /\ req' = [req EXCEPT ![c] = IdleReq]
    /\ out' = NoOut
    /\ UNCHANGED <<users, tradeins, sales, repairs, leads, activity, session, now, faults>>

\* ------------------------------------------------------ status transitions

\* The source declares the status columns and reads them, but holds no handler
\* that changes a status. The transition operation is modelled from the
\* design document (sections 4.3, 5 and 7): one atomic step that reads the
\* status, checks the state table and the capability, writes the new status
\* with updated_at and updated_by, and records one activity row.
StatusEdges ==
    [tradein |-> {<<"pending", "approved">>, <<"pending", "rejected">>,
                  <<"approved", "paid_out">>},
     repair |-> {<<"received", "diagnosing">>, <<"diagnosing", "awaiting_parts">>,
                 <<"diagnosing", "in_progress">>, <<"awaiting_parts", "completed">>,
                 <<"in_progress", "completed">>}
                \cup {<<from, "cancelled">> :
                         from \in {"received", "diagnosing", "awaiting_parts", "in_progress"}},
     lead |-> {<<"new", "contacted">>, <<"contacted", "follow_up">>,
               <<"follow_up", "follow_up">>, <<"follow_up", "converted">>,
               <<"follow_up", "lost">>},
     delivery |-> {<<"pending", "out_for_delivery">>, <<"out_for_delivery", "completed">>,
                   <<"pending", "failed">>, <<"out_for_delivery", "failed">>}]

TerminalStatuses ==
    [tradein |-> {"rejected", "paid_out"}, repair |-> {"completed", "cancelled"},
     lead |-> {"converted", "lost"}, delivery |-> {"completed", "failed"}]

StatusesOf(type) == {e[1] : e \in StatusEdges[type]} \cup {e[2] : e \in StatusEdges[type]}

\* A check of the target alone: any status of the type may follow any other.
CanMoveToAnyStatus(type, from, to) == to \in StatusesOf(type)

CanMove(type, from, to) == <<from, to>> \in StatusEdges[type]

\* Approvals need the capability to assign work.
NeedsAssignWork(type, to) == type = "tradein" /\ to \in {"approved", "rejected"}

\* A check that answers a request it cannot carry out as a repeated one.
TransitionOutcomeLenient(type, table, id, target, user) ==
    IF id \notin DOMAIN table THEN "NotFound"
    ELSE IF ~CanMove(type, table[id].status, target) THEN "Unchanged"
    ELSE IF NeedsAssignWork(type, target) /\ ~can_assign_leads(user) THEN "Forbidden"
    ELSE "Moved"

\* The outcome of a transition request. Asking for the status the entity
\* already has is a success that changes nothing, unless the table has that
\* edge (follow_up recurs).
TransitionOutcome(type, table, id, target, user) ==
    IF id \notin DOMAIN table THEN "NotFound"
    ELSE IF ~CanMove(type, table[id].status, target)
    THEN IF target = table[id].status THEN "Unchanged" ELSE "InvalidTransition"
    ELSE IF NeedsAssignWork(type, target) /\ ~can_assign_leads(user) THEN "Forbidden"
    ELSE "Moved"

Moved(table, id, target, user_id) ==
    [table EXCEPT ![id].status = target, ![id].updated_at = now, ![id].updated_by = user_id]

WorkflowTypes == {"tradein", "repair", "lead"}
EntityIdInputs == {1, 2}

TableOf(type) ==
    CASE type = "tradein" -> tradeins
      [] type = "repair" -> repairs
      [] type = "lead" -> leads

TransitionArgs ==
    {[type |-> type, id |-> id, target |-> target] :
        type \in WorkflowTypes, id \in EntityIdInputs, target \in UNION {StatusesOf(t) : t \in WorkflowTypes}}

\* A request that will write to the activity log is issued only while the log
\* has room for its row.
CanStartTransition(c, arg) ==
    /\ arg.target \in StatusesOf(arg.type)
    /\ session[c].user_id # 0 =>
          (TransitionOutcome(arg.type, TableOf(arg.type), arg.id, arg.target,
                             users[session[c].user_id]) = "Moved"
           => LogRoom)

\* The operation itself, for the actor the decorator has let through.
transition_entity(c, store_ok) ==
    /\ req[c].op = "transition_entity" /\ req[c].pc = "body"
    /\ LET user_id == session[c].user_id
           type == req[c].arg.type
           id == req[c].arg.id
           target == req[c].arg.target
           outcome == TransitionOutcome(type, TableOf(type), id, target, users[user_id])
           moved == outcome = "Moved" /\ store_ok
           answer(code, body) == Response(c, "transition_entity", req[c].arg, id, code, body)
       IN /\ outcome # "Moved" => store_ok
          /\ tradeins' = IF moved /\ type = "tradein"
                         THEN Moved(tradeins, id, target, user_id) ELSE tradeins
          /\ repairs' = IF moved /\ type = "repair"
                        THEN Moved(repairs, id, target, user_id) ELSE repairs
          /\ leads' = IF moved /\ type = "lead"
                      THEN Moved(leads, id, target, user_id) ELSE leads
          /\ activity' = IF moved
                         THEN log_activity(session[c], "status_changed", type, id)
                         ELSE activity
          /\ faults' = IF outcome = "Moved" /\ ~store_ok THEN faults + 1 ELSE faults
          /\ out' = CASE moved -> answer(200, [success |-> TRUE])
                      [] outcome = "Moved" /\ ~store_ok ->
                            answer(500, [error |-> "StoreUnavailable"])
                      [] outcome = "Unchanged" -> answer(200, [success |-> TRUE])
                      [] outcome = "NotFound" -> answer(404, [error |-> outcome])
                      [] outcome = "Forbidden" -> answer(403, [error |-> outcome])
                      [] outcome = "InvalidTransition" -> answer(409, [error |-> outcome])
    /\ req' = [req EXCEPT ![c] = IdleReq]
    /\ UNCHANGED <<users, sales, session, now>>

\* ------------------------------------------------------- the specification

CreateOps == {"add_lead", "submit_tradein", "submit_sale", "submit_repair"}
ReadOps == {"dashboard", "leads_list", "dashboard_stats"}

\* The steps of the four creation handlers past the decorator.
submit_tradein(c) ==
    \/ submit_tradein_count(c)
    \/ submit_tradein_insert(c)
    \/ \E store_ok \in StoreOutcomes : submit_tradein_log(c, store_ok)

submit_sale(c) ==
    \/ submit_sale_count(c)
    \/ submit_sale_insert(c)
    \/ \E store_ok \in StoreOutcomes : submit_sale_log(c, store_ok)

submit_repair(c) ==
    \/ submit_repair_count(c)
    \/ submit_repair_insert(c)
    \/ \E store_ok \in StoreOutcomes : submit_repair_log(c, store_ok)

add_lead(c) ==
    \/ add_lead_count(c)
    \/ add_lead_insert(c)
    \/ \E store_ok \in StoreOutcomes : add_lead_log(c, store_ok)

\* Every request of every client, interleaved at every step.
Next ==
    \/ Tick
    \/ \E c \in Clients, u \in DOMAIN users, good \in BOOLEAN, store_ok \in StoreOutcomes :
          login(c, u, good, store_ok)
    \/ \E c \in Clients, store_ok \in StoreOutcomes : logout(c, store_ok)
    \/ \E c \in Clients, op \in LoginOps, is_json \in BOOLEAN :
          \E arg \in ArgsOf(op) : login_required(c, op, arg, is_json)
    \/ \E c \in Clients : dashboard(c)
    \/ \E c \in Clients : leads_list(c)
    \/ \E c \in Clients : dashboard_stats(c)
    \/ \E c \in Clients : submit_tradein(c)
    \/ \E c \in Clients : submit_sale(c)
    \/ \E c \in Clients : submit_repair(c)
    \/ \E c \in Clients : add_lead(c)
    \/ \E c \in Clients : staff_management(c)
    \/ \E c \in Clients, arg \in StaffArgs : add_staff(c, arg)
    \/ \E c \in Clients : add_staff_insert(c)
    \/ \E c \in Clients, store_ok \in StoreOutcomes : add_staff_log(c, store_ok)
    \/ \E c \in Clients, user_id \in 0 .. Len(users) : toggle_staff(c, user_id)
    \/ \E c \in Clients : toggle_staff_commit(c)
    \/ \E c \in Clients, store_ok \in StoreOutcomes : toggle_staff_log(c, store_ok)

Spec == Init /\ [][Next]_vars

\* The creation requests alone, interleaved at every step.
NextNumbers ==
    \/ \E c \in Clients, op \in CreateOps, is_json \in BOOLEAN :
          \E arg \in ArgsOf(op) : LogRoom /\ login_required(c, op, arg, is_json)
    \/ \E c \in Clients : submit_tradein(c)
    \/ \E c \in Clients : submit_sale(c)
    \/ \E c \in Clients : submit_repair(c)
    \/ \E c \in Clients : add_lead(c)

SpecNumbers == Init /\ [][NextNumbers]_vars

\* Every request that writes to the activity log, interleaved at every step;
\* one sale payload and the accounts an owner adds as owner or by default.
\* MaxLog bounds every row of the log.
AuditArgs(op) ==
    {a \in ArgsOf(op) : op = "submit_sale" /\ a.complete => a.quantity = 2}
AuditStaffArgs == {a \in StaffArgs : a.has_role => a.role = "owner"}

NextAudit ==
    \/ \E c \in Clients, u \in DOMAIN users, good \in BOOLEAN, store_ok \in StoreOutcomes :
          LogRoom /\ login(c, u, good, store_ok)
    \/ \E c \in Clients, store_ok \in StoreOutcomes : LogRoom /\ logout(c, store_ok)
    \/ \E c \in Clients, op \in CreateOps :
          \E arg \in AuditArgs(op) : LogRoom /\ login_required(c, op, arg, TRUE)
    \/ \E c \in Clients : submit_tradein(c)
    \/ \E c \in Clients : submit_sale(c)
    \/ \E c \in Clients : submit_repair(c)
    \/ \E c \in Clients : add_lead(c)
    \/ \E c \in Clients, arg \in AuditStaffArgs : LogRoom /\ add_staff(c, arg)
    \/ \E c \in Clients : add_staff_insert(c)
    \/ \E c \in Clients, store_ok \in StoreOutcomes : add_staff_log(c, store_ok)
    \/ \E c \in Clients, user_id \in 0 .. Len(users) : LogRoom /\ toggle_staff(c, user_id)
    \/ \E c \in Clients : toggle_staff_commit(c)
    \/ \E c \in Clients, store_ok \in StoreOutcomes : toggle_staff_log(c, store_ok)

SpecAudit == Init /\ [][NextAudit]_vars

\* The creation requests with the dashboard and the leads list, interleaved at
\* every step.
NextScope ==
    \/ \E c \in Clients, op \in CreateOps \cup {"dashboard", "leads_list"}, is_json \in BOOLEAN :
          \E arg \in AuditArgs(op) : LogRoomFor(op) /\ login_required(c, op, arg, is_json)
    \/ \E c \in Clients : dashboard(c)
    \/ \E c \in Clients : leads_list(c)
    \/ \E c \in Clients : submit_tradein(c)
    \/ \E c \in Clients : submit_sale(c)
    \/ \E c \in Clients : submit_repair(c)
    \/ \E c \in Clients : add_lead(c)

SpecScope == Init /\ [][NextScope]_vars

\* Sales and the figures computed from them, as the days pass; the requests
\* one at a time.
Quiet == \A d \in Clients : req[d].pc = "done"

NextProfit ==
    \/ Tick
    \/ \E c \in Clients, op \in {"submit_sale", "dashboard_stats", "dashboard"},
          is_json \in BOOLEAN :
          \E arg \in ArgsOf(op) : Quiet /\ LogRoomFor(op) /\ login_required(c, op, arg, is_json)
    \/ \E c \in Clients : dashboard_stats(c)
    \/ \E c \in Clients : dashboard(c)
    \/ \E c \in Clients : submit_sale(c)

SpecProfit == Init /\ [][NextProfit]_vars

\* The owner-only handlers, asked by every account, and the logins of the
\* accounts they create. MaxLog bounds every row of the log.
NextStaff ==
    \/ \E c \in Clients, u \in DOMAIN users, good \in BOOLEAN, store_ok \in StoreOutcomes :
          LogRoom /\ login(c, u, good, store_ok)
    \/ \E c \in Clients : staff_management(c)
    \/ \E c \in Clients, arg \in StaffArgs : LogRoom /\ add_staff(c, arg)
    \/ \E c \in Clients : add_staff_insert(c)
    \/ \E c \in Clients, store_ok \in StoreOutcomes : add_staff_log(c, store_ok)
    \/ \E c \in Clients, user_id \in 0 .. Len(users) : LogRoom /\ toggle_staff(c, user_id)
    \/ \E c \in Clients : toggle_staff_commit(c)
    \/ \E c \in Clients, store_ok \in StoreOutcomes : toggle_staff_log(c, store_ok)
    \/ \E c \in Clients : staff_performance_api(c)
    \/ \E c \in Clients, page \in PageInputs, per_page \in PerPageInputs :
          activity_log_api(c, page, per_page)

SpecStaff == Init /\ [][NextStaff]_vars

\* The activity log as logins and logouts fill it and the clock advances,
\* read page by page and as a whole.
NextLog ==
    \/ Tick
    \/ \E c \in Clients, u \in DOMAIN users, good \in BOOLEAN, store_ok \in StoreOutcomes :
          LogRoom /\ login(c, u, good, store_ok)
    \/ \E c \in Clients, store_ok \in StoreOutcomes : LogRoom /\ logout(c, store_ok)
    \/ \E c \in Clients : owner_dashboard(c)
    \/ \E c \in Clients, page \in PageInputs, per_page \in PerPageInputs :
          activity_log_api(c, page, per_page)
    \/ \E c \in Clients, per_page \in PerPageInputs : activity_log_pages(c, per_page)
    \/ \E c \in Clients : activity_log_pages_done(c)

SpecLog == Init /\ [][NextLog]_vars

\* The creation of the entities that have a status, from payloads that name
\* a status.
StatusOps == {"add_lead", "submit_tradein", "submit_repair"}

NextCreate ==
    \/ \E c \in Clients, op \in StatusOps, is_json \in BOOLEAN :
          \E arg \in StatusPayloads : LogRoom /\ login_required(c, op, arg, is_json)
    \/ \E c \in Clients : submit_tradein(c)
    \/ \E c \in Clients : submit_repair(c)
    \/ \E c \in Clients : add_lead(c)

SpecCreate == Init /\ [][NextCreate]_vars

\* The entities that have a status, created and moved through their states,
\* the requests one at a time.
NextWorkflow ==
    \/ \E c \in Clients, op \in StatusOps :
          Quiet /\ LogRoom /\ login_required(c, op, [complete |-> TRUE], TRUE)
    \/ \E c \in Clients : submit_tradein(c)
    \/ \E c \in Clients : submit_repair(c)
    \/ \E c \in Clients : add_lead(c)
    \/ \E c \in Clients, arg \in TransitionArgs :
          /\ Quiet /\ CanStartTransition(c, arg)
          /\ login_required(c, "transition_entity", arg, TRUE)
    \/ \E c \in Clients, store_ok \in StoreOutcomes : transition_entity(c, store_ok)

SpecWorkflow == Init /\ [][NextWorkflow]_vars

\* The accounts an owner adds as owners, their logins, and the requests of
\* their sessions as owners deactivate one another: the owner-only handlers
\* and, of the login-protected ones, the list of leads.
OwnerArgs == {a \in StaffArgs : a.has_role /\ a.role = "owner"}

NextOwners ==
    \/ \E c \in Clients, u \in DOMAIN users, good \in BOOLEAN, store_ok \in StoreOutcomes :
          login(c, u, good, store_ok)
    \/ \E c \in Clients, is_json \in BOOLEAN : login_required(c, "leads_list", NoArg, is_json)
    \/ \E c \in Clients : leads_list(c)
    \/ \E c \in Clients : staff_management(c)
    \/ \E c \in Clients, arg \in OwnerArgs : add_staff(c, arg)
    \/ \E c \in Clients : add_staff_insert(c)
    \/ \E c \in Clients, store_ok \in StoreOutcomes : add_staff_log(c, store_ok)
    \/ \E c \in Clients, user_id \in 0 .. Len(users) : toggle_staff(c, user_id)
    \/ \E c \in Clients : toggle_staff_commit(c)
    \/ \E c \in Clients, store_ok \in StoreOutcomes : toggle_staff_log(c, store_ok)

SpecOwners == Init /\ [][NextOwners]_vars

\* Sales, trade-ins and repairs and the figures counted from them, as the
\* days pass; the requests one at a time.
MetricOps == {"submit_sale", "submit_tradein", "submit_repair", "dashboard_stats", "dashboard"}

NextMetrics ==
    \/ Tick
    \/ \E c \in Clients, op \in MetricOps :
          \E arg \in AuditArgs(op) :
              Quiet /\ LogRoomFor(op) /\ login_required(c, op, arg, TRUE)
    \/ \E c \in Clients : dashboard_stats(c)
    \/ \E c \in Clients : dashboard(c)
    \/ \E c \in Clients : submit_sale(c)
    \/ \E c \in Clients : submit_tradein(c)
    \/ \E c \in Clients : submit_repair(c)

SpecMetrics == Init /\ [][NextMetrics]_vars

\* ------------------------------------------------------------ the claims

\* The four numbered tables: handler, table, number column, prefix.
Numbered ==
    { [op |-> "submit_tradein", table |-> tradeins, column |-> "trade_in_number", prefix |-> "TI"],
      [op |-> "submit_sale", table |-> sales, column |-> "sale_number", prefix |-> "SL"],
      [op |-> "submit_repair", table |-> repairs, column |-> "repair_number", prefix |-> "RP"],
      [op |-> "add_lead", table |-> leads, column |-> "lead_number", prefix |-> "LD"] }

NumberValue(number) == DigitsValue(number.digits)

\* C1: the read of the entity count and the insert of the new entity are one
\* atomic step: a creation request about to insert still holds the current
\* count of its table, so no two requests are given the same number.
C1_CountReadAndInsertAtomic ==
    \A c \in Clients, t \in Numbered :
        req[c].op = t.op /\ req[c].pc = "insert" => req[c].count = Len(t.table)

\* C2: the business numbers stored in a table are pairwise distinct and
\* strictly increasing in creation order, and a stored number never changes.
NumbersUniqueAndIncreasing(table, column) ==
    \A i, j \in DOMAIN table :
        i < j => NumberValue(table[i][column]) < NumberValue(table[j][column])

NumbersKept(old, new, column) ==
    /\ Len(new) >= Len(old)
    /\ \A i \in DOMAIN old : new[i][column] = old[i][column]

C2_NumbersUniqueIncreasingFixed ==
    /\ [](/\ NumbersUniqueAndIncreasing(tradeins, "trade_in_number")
          /\ NumbersUniqueAndIncreasing(sales, "sale_number")
          /\ NumbersUniqueAndIncreasing(repairs, "repair_number")
          /\ NumbersUniqueAndIncreasing(leads, "lead_number"))
    /\ [][/\ NumbersKept(tradeins, tradeins', "trade_in_number")
          /\ NumbersKept(sales, sales', "sale_number")
          /\ NumbersKept(repairs, repairs', "repair_number")
          /\ NumbersKept(leads, leads', "lead_number")]_vars

\* Two creation requests of one type that overlapped: the first has stored
\* its row, the second still holds the count it read before.
C2_Witness ==
    \E c \in Clients :
        /\ req[c].op = "submit_tradein" /\ req[c].pc = "insert"
        /\ req[c].count = 0 /\ Len(tradeins) = 1

\* C3: the k-th entity stored in a table carries PREFIX-(10000+k), five
\* digits wide: the numbers issued are consecutive from 10001, without gaps.
C3_SequentialNumbers ==
    \A t \in Numbered : \A k \in DOMAIN t.table :
        LET number == t.table[k][t.column]
        IN /\ number.prefix = t.prefix
           /\ Len(number.digits) = PadWidth
           /\ NumberValue(number) = 10000 + k

\* The second sale has been created and answered with SL-10002.
C3_Witness ==
    /\ Len(sales) = 2
    /\ out.op = "submit_sale" /\ out.code = 200 /\ out.entity_id = 2

\* C4: two concurrent sale creations by the same Staff actor both succeed:
\* neither is answered with the error of a sale number already taken.
C4_ConcurrentSalesBothSucceed ==
    \A c, d \in Clients :
        ( /\ c # d
          /\ session[c].user_id # 0
          /\ session[c].user_id = session[d].user_id
          /\ users[session[c].user_id].role = "staff"
          /\ out.client = c /\ out.op = "submit_sale" )
        => out.body # Raised("IntegrityError: UNIQUE constraint failed")

\* The handlers that change an entity or an actor, with the entity_type their
\* audit events carry and the table the entity is in.
Mutations ==
    { [op |-> "submit_tradein", entity_type |-> "tradein", table |-> tradeins],
      [op |-> "submit_sale", entity_type |-> "sale", table |-> sales],
      [op |-> "submit_repair", entity_type |-> "repair", table |-> repairs],
      [op |-> "add_lead", entity_type |-> "lead", table |-> leads],
      [op |-> "add_staff", entity_type |-> "user", table |-> users],
      [op |-> "toggle_staff", entity_type |-> "user", table |-> users] }

\* The response reports that the handler did what was asked.
Succeeded(o) ==
    \/ o.code = 200 /\ "success" \in DOMAIN o.body
    \/ o.code = 302 /\ o.body \in {Redirect("leads_list"), Redirect("staff_management"),
                                   Redirect("dashboard")}
    \/ o.code = 302 /\ o.op = "logout"

\* C5: every successful mutation appends exactly one audit event, whose
\* entity_type and entity_id are those of the entity it created or changed; a
\* mutation that did not succeed appends none; nothing else but a login or a
\* logout appends any.
C5_Step ==
    /\ \A m \in Mutations :
          out'.op = m.op =>
             IF Succeeded(out')
             THEN /\ Len(activity') = Len(activity) + 1
                  /\ SubSeq(activity', 1, Len(activity)) = activity
                  /\ LET e == activity'[Len(activity')]
                         c == out'.client
                     IN /\ e.entity_type = m.entity_type
                        /\ e.entity_id \in DOMAIN m.table
                        /\ e.user_id = out'.user_id
                        /\ IF m.op = "toggle_staff"
                           THEN e.entity_id = req[c].arg.user_id
                           ELSE m.table[e.entity_id].created_by = out'.user_id
             ELSE activity' = activity
    /\ activity' # activity =>
          /\ Succeeded(out')
          /\ out'.op \in {m.op : m \in Mutations} \cup {"login", "logout"}

C5_OneAuditEventPerMutation == [][C5_Step]_vars

\* An owner has toggled an account and the toggle is the last row of the log.
C5_Witness ==
    /\ out.op = "toggle_staff" /\ Succeeded(out)
    /\ Len(activity) = 2
    /\ activity[2].action = "staff_toggled"

\* C6: no committed entity and no changed actor is left by an operation whose
\* audit event was not recorded: every stored entity, every added account and
\* every deactivated account has its audit event, or the request that wrote
\* it has yet to reach its log_activity call.
Audited(m, id) ==
    \/ \E i \in DOMAIN activity :
          activity[i].entity_type = m.entity_type /\ activity[i].entity_id = id
    \/ \E c \in Clients : req[c].op = m.op /\ req[c].pc = "log" /\ req[c].entity_id = id

C6_NoEntityWithoutAudit ==
    \A m \in Mutations : \A id \in DOMAIN m.table :
        CASE m.op = "add_staff" -> id > Len(SeedUsers) => Audited(m, id)
          [] m.op = "toggle_staff" -> ~users[id].is_active => Audited(m, id)
          [] OTHER -> Audited(m, id)

\* C7: the audit log is append-only: a step leaves every recorded event in
\* place and unchanged, and the log never gets shorter.
C7_AuditAppendOnly ==
    [][/\ Len(activity') >= Len(activity)
       /\ \A i \in DOMAIN activity : activity'[i] = activity[i]]_vars

\* The log holds two events of the same user.
C7_Witness ==
    /\ Len(activity) = 2
    /\ activity[1].user_id = activity[2].user_id

\* C8: the list of leads holds every lead for an owner or a manager and, for
\* a staff user, exactly the leads that user created; the leads, sales,
\* trade-ins and repairs of a staff user's dashboard were all created by that
\* user.
C8_ScopedLists ==
    LET role == users[out.user_id].role
        own(table, ids) ==
            ids \subseteq DOMAIN table /\ \A i \in ids : table[i].created_by = out.user_id
    IN /\ out.op = "leads_list" /\ out.code = 200 =>
            /\ role \in {"owner", "manager"} => out.body.leads = DOMAIN leads
            /\ role = "staff" =>
                  out.body.leads = {i \in DOMAIN leads : leads[i].created_by = out.user_id}
       /\ out.op = "dashboard" /\ out.code = 200 /\ role = "staff" =>
            /\ own(leads, out.body.leads)
            /\ own(sales, out.body.sales)
            /\ own(tradeins, out.body.tradeins)
            /\ own(repairs, out.body.repairs)

\* The staff user lists the leads while the store holds one lead of that user
\* and one of somebody else.
C8_Witness ==
    /\ out.op = "leads_list" /\ out.code = 200
    /\ users[out.user_id].role = "staff"
    /\ Len(leads) = 2
    /\ Cardinality(out.body.leads) = 1

\* C9: the result of dashboard_stats never has the profit key for a staff
\* user and always has it for an owner, sales today or not.
C9_ProfitKey ==
    out.op = "dashboard_stats" /\ out.code = 200 =>
        LET role == users[out.user_id].role
        IN /\ role = "staff" => "profit_today" \notin DOMAIN out.body
           /\ role = "owner" => "profit_today" \in DOMAIN out.body

\* The owner asks for the figures on a day without sales, a sale of an earlier
\* day being in the store.
C9_Witness ==
    /\ out.op = "dashboard_stats" /\ out.code = 200
    /\ users[out.user_id].role = "owner"
    /\ sales # <<>>
    /\ SalesToday = {}

\* C10: the profit the owner is shown for today, by dashboard_stats and by
\* the dashboard, is the sum of total_price - quantity * cost_price over the
\* sales created today whose cost_price is known (stored nonzero); the other
\* sales add nothing.
ProfitOfKnownCostToday ==
    LET known == {i \in DOMAIN sales : /\ DateOf(sales[i].created_at) = DateOf(now)
                                       /\ sales[i].cost_price # 0}
    IN SumOver([i \in DOMAIN sales |->
                    sales[i].total_price - sales[i].quantity * sales[i].cost_price], known)

C10_ProfitToday ==
    out.code = 200 /\ users[out.user_id].role = "owner" =>
        /\ out.op = "dashboard_stats" => out.body.profit_today = ProfitOfKnownCostToday
        /\ out.op = "dashboard" =>
              out.body.total_profit = [none |-> FALSE, value |-> ProfitOfKnownCostToday]

\* The owner asks for the figures on a day with a sale of two units of known
\* cost and a sale of unknown cost.
C10_Witness ==
    /\ out.op = "dashboard_stats" /\ out.code = 200
    /\ users[out.user_id].role = "owner"
    /\ \E i, j \in SalesToday :
          /\ sales[i].cost_price # 0 /\ sales[i].quantity = 2
          /\ sales[j].cost_price = 0

\* C11: every stored sale has total_price = quantity * unit_price and
\* profit = total_price - quantity * cost_price, the profit being 0 when the
\* cost_price is unknown (stored as 0); no step changes a stored sale.
SaleFieldsConsistent(sale) ==
    /\ sale.total_price = sale.quantity * sale.unit_price
    /\ sale.profit = IF sale.cost_price # 0
                     THEN sale.total_price - sale.quantity * sale.cost_price
                     ELSE 0

C11_SaleFieldsFixed ==
    /\ [](\A i \in DOMAIN sales : SaleFieldsConsistent(sales[i]))
    /\ [][/\ Len(sales') >= Len(sales)
          /\ \A i \in DOMAIN sales : sales'[i] = sales[i]]_vars

\* A sale of unknown cost made the day before and a sale of two units of known
\* cost are in the store.
C11_Witness ==
    /\ Len(sales) = 2
    /\ sales[1].cost_price = 0 /\ DateOf(sales[1].created_at) < DateOf(now)
    /\ sales[2].cost_price # 0 /\ sales[2].quantity = 2

\* C12: the capabilities of an account are decided by its role alone; seeing
\* every entity and assigning work are granted exactly to owner and manager,
\* seeing profits and managing staff exactly to owner, and a staff account is
\* granted nothing.
Capabilities(u) ==
    [view_all_leads |-> can_view_all_leads(u),
     assign_leads |-> can_assign_leads(u),
     delete_records |-> can_delete_records(u),
     view_profits |-> can_view_profits(u),
     view_staff_metrics |-> can_view_staff_metrics(u),
     manage_staff |-> can_manage_staff(u),
     view_all_deliveries |-> can_view_all_deliveries(u),
     access_settings |-> can_access_settings(u)]

C12_CapabilityTable ==
    \A i \in DOMAIN users :
        LET u == users[i]
            granted == Capabilities(u)
        IN /\ granted.view_all_leads <=> u.role \in {"owner", "manager"}
           /\ granted.view_all_deliveries <=> u.role \in {"owner", "manager"}
           /\ granted.assign_leads <=> u.role \in {"owner", "manager"}
           /\ granted.view_profits <=> u.role = "owner"
           /\ granted.manage_staff <=> u.role = "owner"
           /\ u.role = "staff" => \A k \in DOMAIN granted : ~granted[k]
           /\ \A j \in DOMAIN users : users[j].role = u.role => Capabilities(users[j]) = granted

\* A second manager has been added and deactivated: two accounts of one role
\* that differ in everything else.
C12_Witness ==
    /\ Len(users) = 4
    /\ users[4].role = "manager" /\ ~users[4].is_active /\ users[2].is_active

\* C13: an account that is not an owner and asks for an owner-only handler
\* (staff list, add staff, toggle staff, staff performance, activity log) is
\* answered 403 with an error, not with a result, and the step leaves the
\* accounts, the entities and the activity log as they were.
OwnerOnlyOps == {"staff_management", "add_staff", "toggle_staff",
                 "staff_performance_api", "activity_log_api"}

C13_Step ==
    (/\ out'.op \in OwnerOnlyOps
     /\ out'.user_id # 0
     /\ users[out'.user_id].role # "owner")
    => /\ out'.code = 403
       /\ DOMAIN out'.body = {"error"}
       /\ UNCHANGED <<users, tradeins, sales, repairs, leads, activity>>

C13_NonOwnerForbidden == [][C13_Step]_vars

\* An account added with a role of its own has logged in and asked for the
\* activity log.
C13_Witness ==
    /\ out.op = "activity_log_api" /\ out.code = 403
    /\ out.user_id = 4 /\ users[4].role = "intern"
    /\ Len(activity) = 2

\* The elements of a sequence.
Range(seq) == {seq[i] : i \in DOMAIN seq}

\* C14: a step changes the status of a trade-in, repair or lead only along an
\* edge of the state table of its type, and never changes a terminal status.
MovesAlongEdges(type, old, new) ==
    \A i \in DOMAIN old :
        new[i].status # old[i].status =>
            /\ <<old[i].status, new[i].status>> \in StatusEdges[type]
            /\ old[i].status \notin TerminalStatuses[type]

RejectsUnreachable(c, type, old, new) ==
    (/\ req[c].op = "transition_entity" /\ req[c].pc = "body"
     /\ out'.op = "transition_entity" /\ out'.client = c
     /\ req[c].arg.type = type
     /\ req[c].arg.id \in DOMAIN old
     /\ <<old[req[c].arg.id].status, req[c].arg.target>> \notin StatusEdges[type]
     /\ req[c].arg.target # old[req[c].arg.id].status)
    => /\ out'.body = [error |-> "InvalidTransition"]
       /\ new[req[c].arg.id].status = old[req[c].arg.id].status
       /\ new[req[c].arg.id].updated_at = old[req[c].arg.id].updated_at

C15_InvalidTransitionRejected ==
    [][\A c \in Clients :
          /\ RejectsUnreachable(c, "tradein", tradeins, tradeins')
          /\ RejectsUnreachable(c, "repair", repairs, repairs')
          /\ RejectsUnreachable(c, "lead", leads, leads')]_vars

\* An approved trade-in has been asked to go to rejected, which only a
\* pending one may.
C15_Witness ==
    /\ out.op = "transition_entity" /\ out.entity_id = 1
    /\ out.body = [error |-> "InvalidTransition"]
    /\ tradeins # <<>> /\ tradeins[1].status = "approved" /\ tradeins[1].updated_at # 0
    /\ repairs = <<>> /\ leads = <<>>

\* C16: a client that pages through the activity log, newest first, while
\* events are appended between its requests, receives no event twice and,
\* once a page comes back empty, has received every event that was in the
\* log when it read page 1. Stated for logs whose events all differ in
\* timestamp, where the order of the listing is not in question.
DistinctTimestamps ==
    \A i, j \in DOMAIN activity : i # j => activity[i].timestamp # activity[j].timestamp

C16_StablePagination ==
    \A c \in Clients :
        (/\ req[c].op = "activity_log_api"
         /\ req[c].pc \in {"paging", "read"}
         /\ DistinctTimestamps)
        => LET seen == req[c].arg.seen
           IN /\ \A i, j \in DOMAIN seen : i # j => seen[i] # seen[j]
              /\ req[c].pc = "read" => req[c].arg.at_start \subseteq Range(seen)

\* C17: the listing of the activity log is decided by the content of the
\* log: two requests for the same page of the same log, one right after the
\* other, are answered with the same events in the same order.
C17_SameLogSameOrder ==
    [][(/\ out.op = "activity_log_api" /\ out.code = 200
        /\ out'.op = "activity_log_api" /\ out'.code = 200
        /\ activity' = activity
        /\ out'.body.current_page = out.body.current_page
        /\ out'.body.pages = out.body.pages)
       => out'.body.items = out.body.items]_vars

\* C18: the dashboard hands over the per-staff breakdown only to an account
\* that can_view_staff_metrics and the profit only to one that
\* can_view_profits; for any other account the field is left out (a profit
\* of None counts as left out), not zeroed or emptied.
C18_FieldsOmitted ==
    out.op = "dashboard" /\ out.code = 200 =>
        LET u == users[out.user_id]
        IN /\ ~can_view_staff_metrics(u) => "staff_sales" \notin DOMAIN out.body
           /\ ~can_view_profits(u) =>
                 \/ "total_profit" \notin DOMAIN out.body
                 \/ out.body.total_profit.none

\* C19: a newly created trade-in is pending, a new repair received and a new
\* lead new, whatever the payload says.
StartsAs(old, new, status) ==
    \A i \in DOMAIN new \ DOMAIN old : new[i].status = status

C19_Step ==
    /\ StartsAs(tradeins, tradeins', "pending")
    /\ StartsAs(repairs, repairs', "received")
    /\ StartsAs(leads, leads', "new")

C19_InitialStatus == [][C19_Step]_vars

\* A trade-in has been created from a payload that says 'approved'.
C19_Witness ==
    \E c \in Clients :
        /\ req[c].op = "submit_tradein" /\ req[c].pc = "log"
        /\ req[c].arg.status = "approved"
        /\ tradeins[req[c].entity_id].status = "pending"

\* C20: an entity once stored stays stored under its id, with the created_by
\* and the created_at it was stored with; nothing deletes an entity.
EntityKept(old, new) ==
    /\ Len(new) >= Len(old)
    /\ \A i \in DOMAIN old : /\ new[i].created_by = old[i].created_by
                             /\ new[i].created_at = old[i].created_at

C20_EntitiesKept ==
    [][/\ EntityKept(tradeins, tradeins')
       /\ EntityKept(repairs, repairs')
       /\ EntityKept(leads, leads')
       /\ EntityKept(sales, sales')]_vars

\* A trade-in of the staff user is in the store and the owner has just
\* stored a sale.
C20_Witness ==
    /\ Len(tradeins) = 1 /\ tradeins[1].created_by = 3
    /\ Len(sales) = 1 /\ sales[1].created_by = 1
    /\ out.op = "submit_sale" /\ out.code = 200

\* C21: no step changes the role of an account; a step changes an existing
\* account only by the commit of a toggle_staff request, which changes
\* nothing but the is_active flag of the account it names, and every such
\* commit turns the flag over, so that two toggles of one account leave it as
\* it was and a deactivated account is activated by the next.
C21_Step ==
    /\ \A i \in DOMAIN users : users'[i].role = users[i].role
    /\ \A i \in DOMAIN users :
          users'[i] # users[i] =>
             \E c \in Clients :
                /\ req[c].op = "toggle_staff" /\ req[c].pc = "commit" /\ req'[c].pc = "log"
                /\ req[c].entity_id = i
                /\ users'[i] = [users[i] EXCEPT !.is_active = users'[i].is_active]
    /\ \A c \in Clients :
          req[c].op = "toggle_staff" /\ req[c].pc = "commit" /\ req'[c].pc = "log" =>
             users'[req[c].entity_id].is_active = ~users[req[c].entity_id].is_active

C21_ToggleTurnsActiveFlagOnly == [][C21_Step]_vars

\* C22: the role of every account is owner, manager or staff, whatever role
\* the add_staff form carried.
Roles == {"owner", "manager", "staff"}

C22_RolesAreKnown == \A i \in DOMAIN users : users[i].role \in Roles

\* C23: a creation request of a session that names no account is answered
\* without success and leaves the tables and the log as they were; one that
\* has passed login_required with a complete payload is answered with success
\* whatever the role of its account, unless the store fails the commit of the
\* log; and every row added to a table has the account of the request that
\* adds it as created_by.
CreatedByRequester(old, new, op) ==
    Len(new) > Len(old) =>
        \E c \in Clients :
            /\ req[c].op = op /\ req[c].pc = "insert"
            /\ new[Len(new)].created_by = session[c].user_id
            /\ session[c].user_id # 0

C23_Step ==
    /\ out'.op \in CreateOps =>
          LET c == out'.client
          IN /\ session[c].user_id = 0 =>
                   /\ ~Succeeded(out')
                   /\ UNCHANGED <<tradeins, sales, repairs, leads, activity>>
             /\ req[c].pc # "done" /\ req[c].arg.complete =>
                   Succeeded(out') \/ out'.body = Raised("OperationalError")
    /\ CreatedByRequester(tradeins, tradeins', "submit_tradein")
    /\ CreatedByRequester(sales, sales', "submit_sale")
    /\ CreatedByRequester(repairs, repairs', "submit_repair")
    /\ CreatedByRequester(leads, leads', "add_lead")

C23_CreationOpenToEveryRole == [][C23_Step]_vars

\* C24: for every account that is neither owner nor manager, the leads of its
\* dashboard are among the leads of its list, and the leads of its list that
\* are new, contacted or follow_up are all on its dashboard; the dashboard
\* and the list it is sent show just that.
ScopedAsStaff == {u \in DOMAIN users : users[u].role \notin {"owner", "manager"}}

C24_DashboardAndListAgree ==
    /\ \A u \in ScopedAsStaff :
          /\ DashboardView(u, {}).leads \subseteq LeadsView(u)
          /\ {i \in LeadsView(u) : leads[i].status \in OpenLeadStatuses}
                \subseteq DashboardView(u, {}).leads
    /\ out.code = 200 /\ out.user_id \in ScopedAsStaff =>
          /\ out.op = "dashboard" => out.body.leads \subseteq LeadsView(out.user_id)
          /\ out.op = "leads_list" =>
                {i \in out.body.leads : leads[i].status \in OpenLeadStatuses}
                   \subseteq DashboardView(out.user_id, {}).leads

\* The staff user is shown the dashboard while the store holds a lead of that
\* user and a lead of somebody else.
C24_Witness ==
    /\ out.op = "dashboard" /\ out.code = 200
    /\ users[out.user_id].role = "staff"
    /\ Len(leads) = 2
    /\ Cardinality(out.body.leads) = 1
    /\ out.body.leads = LeadsView(out.user_id)

\* C25: every row of the activity log names an account, which exists, and
\* every row is written with the account of the request that the writing
\* step answers: the account that logged in or out, created the entity, or
\* added or toggled the account.
C25_AuditEventsAttributed ==
    /\ [](\A i \in DOMAIN activity :
              activity[i].user_id # 0 /\ activity[i].user_id \in DOMAIN users)
    /\ [][Len(activity') > Len(activity) =>
             /\ out'.op \in LoggingOps
             /\ out'.user_id # 0
             /\ activity'[Len(activity')].user_id = out'.user_id]_vars

\* The manager has logged in and out again: the log holds both rows.
C25_Witness ==
    /\ out.op = "logout" /\ out.user_id = 2
    /\ Len(activity) = 2
    /\ activity[1].action = "login" /\ activity[1].user_id = 2
    /\ activity[2].action = "logout" /\ activity[2].user_id = 2

\* C26: while an account is deactivated, no login opens a session for it, and
\* a request to a login-protected or owner-only handler that arrives with a
\* session of that account is neither let through to the handler nor
\* answered with what it asked for.
Served(o) ==
    \/ Succeeded(o)
    \/ o.code = 200 /\ "error" \notin DOMAIN o.body

C26_Step ==
    \A c \in Clients :
        /\ session'[c] # session[c] /\ session'[c].user_id # 0 =>
              users[session'[c].user_id].is_active
        /\ (/\ session[c].user_id # 0
            /\ ~users[session[c].user_id].is_active
            /\ req[c].pc = "done")
           => /\ req'[c].pc = "done"
              /\ out'.client = c /\ out'.op \in LoginOps \cup OwnerOnlyOps => ~Served(out')

C26_DeactivatedAccountShutOut == [][C26_Step]_vars

\* C27: in every state some account with the role owner is active.
C27_ActiveOwnerExists ==
    \E i \in DOMAIN users : users[i].role = "owner" /\ users[i].is_active

\* C28: the figures of dashboard_stats and of the dashboard count, for a
\* staff user, the records that user created and, for an owner or a manager,
\* the records of every user: the revenue is the sum of total_price over the
\* sales created today, sales_count the number of those same sales, and the
\* trade-ins and repairs counted are the pending and the not completed ones.
CountedFor(uid, table) ==
    {i \in DOMAIN table :
        users[uid].role \in {"owner", "manager"} \/ table[i].created_by = uid}

C28_MetricsScoped ==
    out.code = 200 /\ out.op \in {"dashboard_stats", "dashboard"}
       /\ users[out.user_id].role \in Roles =>
        LET uid == out.user_id
            summed == {i \in CountedFor(uid, sales) :
                          DateOf(sales[i].created_at) = DateOf(now)}
            revenue == SumOver([i \in DOMAIN sales |-> sales[i].total_price], summed)
            pending == {i \in CountedFor(uid, tradeins) : tradeins[i].status = "pending"}
            active == {i \in CountedFor(uid, repairs) : repairs[i].status # "completed"}
        IN /\ out.body.sales_count = Cardinality(summed)
           /\ out.op = "dashboard_stats" =>
                 /\ out.body.sales_today = revenue
                 /\ out.body.pending_tradeins = Cardinality(pending)
                 /\ out.body.active_repairs = Cardinality(active)
           /\ out.op = "dashboard" =>
                 /\ out.body.total_revenue = revenue
                 /\ out.body.tradeins = pending
                 /\ out.body.repairs = active

\* The staff user asks for the figures on a day with a sale of that user and
\* a sale of somebody else.
C28_Witness ==
    /\ out.op = "dashboard_stats" /\ out.code = 200
    /\ users[out.user_id].role = "staff"
    /\ Len(sales) = 2 /\ Cardinality(SalesToday) = 2
    /\ out.body.sales_count = 1
    /\ out.body.sales_today = 10

====
